---- MODULE Spec2Model ----
(***************************************************************************)
(* State-machine model of the RRC API service (Django, api/views.py):      *)
(* the bulk table-replacement endpoint POST /api/sync and the cached read  *)
(* endpoints GET /api/clients, /api/master and /api/products/all, running  *)
(* as concurrent requests against one PostgreSQL database and one          *)
(* in-process cache (LocMemCache, rrc/settings.py).                        *)
(*                                                                         *)
(* Rows are abstract: a row is a positive integer and its "name" column    *)
(* orders like the integer.  A table is a bag of rows (the API layer       *)
(* enforces no key).  Time is counted in minutes.                          *)
(***************************************************************************)
EXTENDS Integers, Sequences, FiniteSets, Bags, TLC

\* ------------------------------------------------------------------ bounds
MaxTime == 20        \* the clock stops advancing here
TickMinutes == 10    \* granularity of the clock
MaxRequests == 3     \* requests (sync and read) started in one behaviour
ValuesBatchSize == 1 \* batch_size of _values_bulk_insert (2000 in the source),
                     \* scaled to the payloads of the model

\* ------------------------------------------------------- program constants
CLIENT_DATA_CACHE_MINUTES == 15
MASTER_DATA_CACHE_MINUTES == 30
PRODUCT_DATA_CACHE_MINUTES == 15
MAX_PAGE_SIZE == 5000

valid_tables == {"rrc_clients", "acc_master", "acc_product"}

\* A request field that the JSON object does not carry.
Absent == "<absent>"

\* An element of the data list that is not a JSON object (a number, a
\* string, a character of a string): it has no keys() and no get().
NonMapping == 0

\* The requests that run side by side: two sync requests and one read
\* request.  The second sync process runs only in behaviours without read
\* requests: two overlapping syncs are explored against each other, one
\* sync (and its successors) against the reads.
SyncProcs == {"s1", "s2"}
SecondWriter == "s2"
Readers == {"g1"}

\* ----------------------------------------------------------------- helpers
Range(s) == {s[i] : i \in DOMAIN s}

SeqToBag(s) == [x \in Range(s) |-> Cardinality({i \in DOMAIN s : s[i] = x})]

BagSize(b) == BagCardinality(b)

Min(a, b) == IF a < b THEN a ELSE b

\* ------------------------------------------------------- request payloads
\* The bodies POST /api/sync is offered.  kind: how json.loads ends
\* ("bad_json": it raises; "not_object": a list, a string, a number);
\* table: the "table" field; shape and items: the "data" field.  A
\* non-empty string behaves as a sequence of non-mappings.
Body(k, t, sh, it) == [kind |-> k, table |-> t, shape |-> sh, items |-> it]

SyncBodies ==
    { Body("bad_json",   Absent, "absent", <<>>),
      Body("not_object", Absent, "absent", <<>>),
      Body("object", "bogus_table", "list",   <<1>>),
      Body("object", "rrc_clients", "list",   <<>>),
      Body("object", "acc_master",  "absent", <<>>),
      Body("object", "acc_product", "null",   <<>>),
      Body("object", "rrc_clients", "string", <<NonMapping>>),
      Body("object", "rrc_clients", "list",   <<1, NonMapping>>),
      Body("object", Absent,        "list",   <<2>>),
      Body("object", Absent,        "list",   <<1, 2>>),
      Body("object", "rrc_clients", "list",   <<1, 2>>),
      Body("object", "acc_master",  "list",   <<1, 2>>),
      Body("object", "acc_product", "list",   <<2>>) }

\* ------------------------------------------------------------------- state
VARIABLES
    now,        \* the clock (datetime.now(), time.time()), in minutes
    driver,     \* the database driver the backend runs on
    db,         \* committed rows of each table
    cache,      \* the cache store
    sync,       \* the POST /api/sync requests in flight
    rd,         \* the read requests in flight
    nSync,      \* sync requests started so far
    nRead,      \* read requests started so far
    hist,       \* history: per table, what last changed it and when
    hashseed    \* the hash values of the worker process (PYTHONHASHSEED)

vars == <<now, driver, db, cache, sync, rd, nSync, nRead, hist, hashseed>>

\* ------------------------------------------------------------ the database
Engine == "postgresql"      \* DATABASES['default']['ENGINE']

\* The drivers Django's postgresql backend runs on.  views.py ends the
\* transaction of transaction.atomic() by hand (cursor.execute('COMMIT')).
\* psycopg2 keeps its own transaction status and goes on believing a
\* transaction is open, so every later statement is committed by the server
\* on its own; psycopg (3) reads the server's status and opens a new
\* transaction before the next statement, and it has no copy_expert.
Drivers == {"psycopg2", "psycopg3"}

\* ------------------------------------------------------------ sync records
IdleSync ==
    [pc |-> "idle", table |-> Absent, records |-> <<>>, status |-> 0,
     count |-> 0, pending |-> EmptyBag, locked |-> FALSE, aborted |-> FALSE,
     pre |-> EmptyBag, interfered |-> FALSE, reason |-> "none",
     success |-> FALSE, clear_failed |-> FALSE]

\* The response of a finished request: status, the reason of the branch
\* that answered, the 'success' field, records_processed; table and records stay as history of
\* what was asked.  While a request runs, pre and interfered are history
\* too: the table's rows when the request arrived, and whether another
\* request changed that table meanwhile.  clear_failed is history as
\* well: whether cache.clear() raised in the request.
Response(r, st, why, ok, n) ==
    [IdleSync EXCEPT !.pc = "done", !.status = st, !.reason = why,
                     !.success = ok, !.count = n,
                     !.table = r.table, !.records = r.records,
                     !.clear_failed = r.clear_failed]

\* Another request changed table t: note it in the requests working on t.
Mark(r, t) ==
    IF r.pc \notin {"idle", "done"} /\ r.table = t
    THEN [r EXCEPT !.interfered = TRUE]
    ELSE r

Busy(r) == r.pc \notin {"idle", "done"}

\* A transaction other than p's holds a lock on table t (row-exclusive,
\* taken by its inserts and kept until it commits or rolls back).
LockedByOther(p, t) ==
    \E q \in SyncProcs \ {p} : sync[q].locked /\ sync[q].table = t

IsMapping(x) == x # NonMapping

AllMappings(s) == \A i \in DOMAIN s : IsMapping(s[i])

\* Rows a statement adds: visible at once when the server commits each
\* statement (psycopg2 after the raw COMMIT), pending in the transaction
\* otherwise.
AddRows(p, rows, r) ==
    IF driver = "psycopg2"
    THEN /\ db' = [db EXCEPT ![r.table] = @ (+) SeqToBag(rows)]
         /\ sync' = [q \in SyncProcs |->
                        IF q = p THEN r
                        ELSE IF rows # <<>> THEN Mark(sync[q], r.table)
                        ELSE sync[q]]
    ELSE /\ db' = db
         /\ sync' = [sync EXCEPT ![p] =
                        [r EXCEPT !.pending = @ (+) SeqToBag(rows),
                                  !.locked = @ \/ rows # <<>>]]

\* --------------------------------------------------------- SyncDataView
\* The table a body names: data.get('table', 'rrc_clients').
TableName(body) == IF body.table = Absent THEN "rrc_clients" ELSE body.table

\* Validate as it would be without the table check of post.
ValidateNoTableCheck(body) ==
    IF body.kind = "bad_json" THEN <<400, "invalid_json">>
    ELSE IF body.kind = "not_object" THEN <<500, "exception">>
    ELSE IF body.shape = "null" THEN <<500, "exception">>
    ELSE IF body.items = <<>> THEN <<400, "no_data">>
    ELSE <<0, "accepted">>

\* Validate as it would be without the 'if not records' check of post.
ValidateNoEmptyCheck(body) ==
    IF body.kind = "bad_json" THEN <<400, "invalid_json">>
    ELSE IF body.kind = "not_object" THEN <<500, "exception">>
    ELSE IF TableName(body) \notin valid_tables THEN <<400, "invalid_table">>
    ELSE IF body.shape = "null" THEN <<500, "exception">>
    ELSE <<0, "accepted">>

\* post, up to the transaction: json.loads, the two get()s, the table
\* check, len(records) in the log line, the empty check.  The value is the
\* response <<status, reason>>, or <<0, "accepted">> when the transaction
\* is entered.
Validate(body) ==
    IF body.kind = "bad_json" THEN <<400, "invalid_json">>
    ELSE IF body.kind = "not_object" THEN <<500, "exception">>
    ELSE IF TableName(body) \notin valid_tables THEN <<400, "invalid_table">>
    ELSE IF body.shape = "null" THEN <<500, "exception">>
    ELSE IF body.items = <<>> THEN <<400, "no_data">>
    ELSE <<0, "accepted">>

SyncReceive(p, body) ==
    /\ ~Busy(sync[p])
    /\ nSync + nRead < MaxRequests
    /\ p = SecondWriter => nRead = 0
    /\ nSync' = nSync + 1
    /\ LET v == Validate(body)
           t == IF body.kind = "object" THEN TableName(body) ELSE Absent
           r == [IdleSync EXCEPT !.table = t, !.records = body.items,
                                 !.pre = IF t \in valid_tables THEN db[t]
                                         ELSE EmptyBag]
       IN  sync' = [sync EXCEPT ![p] =
                       IF v[1] = 0 THEN [r EXCEPT !.pc = "truncate"]
                       ELSE Response(r, v[1], v[2], FALSE, 0)]
    /\ UNCHANGED <<now, driver, hashseed, db, cache, rd, nRead, hist>>

\* _ultra_fast_truncate when BEGIN, TRUNCATE and COMMIT all succeed: the
\* COMMIT ends the transaction of transaction.atomic(), so the emptied
\* table is committed here.  TRUNCATE waits for the locks of other
\* transactions on the table.
TruncateCommitted(p) ==
    LET r == sync[p] IN
    /\ ~LockedByOther(p, r.table)
    /\ db' = [db EXCEPT ![r.table] = EmptyBag]
    /\ hist' = [hist EXCEPT ![r.table].state = "dirty"]
    /\ sync' = [q \in SyncProcs |->
                   IF q = p THEN [r EXCEPT !.pc = "insert"]
                   ELSE Mark(sync[q], r.table)]

\* _ultra_fast_truncate when a statement of the try block fails: the
\* handler runs DELETE and then raises the error again, whether the DELETE
\* succeeded or not; post answers 500 and atomic() rolls back.  A DELETE
\* that succeeded ran in a transaction that was not aborted: with psycopg2
\* that is no transaction at all (the one of atomic() has ended and the
\* driver opens no other), so the deletion is committed; with psycopg (3)
\* it is a new transaction, which the rollback undoes.
TruncateFailed(p) ==
    \E deleted \in BOOLEAN :
      LET r == sync[p]
          gone == deleted /\ driver = "psycopg2"
          why == IF deleted THEN "deleted" ELSE "truncate"
      IN  /\ db' = IF gone THEN [db EXCEPT ![r.table] = EmptyBag] ELSE db
          /\ hist' = IF gone THEN [hist EXCEPT ![r.table].state = "dirty"]
                      ELSE hist
          /\ sync' = [q \in SyncProcs |->
                         IF q = p THEN Response(r, 500, why, FALSE, 0)
                         ELSE IF gone THEN Mark(sync[q], r.table)
                         ELSE sync[q]]

SyncTruncate(p) ==
    /\ sync[p].pc = "truncate"
    /\ \/ TruncateCommitted(p)
       \/ TruncateFailed(p)
    /\ UNCHANGED <<now, driver, hashseed, cache, rd, nSync, nRead>>

\* An error that sends the request back to its first step.
RaiseRetries(p, r, why) == [r EXCEPT !.pc = "truncate"]

\* An exception leaves post: atomic() rolls back (the rows pending in the
\* transaction are dropped; rows the server already committed stay) and
\* the handler answers 500.
Raise(p, r, why) == Response(r, 500, why, FALSE, 0)

\* The request ends with rows committed by the server on its own (psycopg2)
\* and nothing of an open transaction.
Finish(p, rows, resp) ==
    IF driver = "psycopg2" THEN AddRows(p, rows, resp)
    ELSE db' = db /\ sync' = [sync EXCEPT ![p] = resp]

\* A fallback that goes from COPY straight to executemany.
FallbackSkipsValues(step) == "executemany"

\* The strategy tried when one has raised: _postgresql_copy_insert falls
\* back to _values_bulk_insert, _values_bulk_insert to
\* _fallback_executemany.  A step is named by the pc of the request in it
\* ("insert" is the step of the column list and COPY).
FallbackOf(step) ==
    IF step = "insert" THEN "values" ELSE "executemany"

\* _ultra_bulk_insert and _postgresql_copy_insert: the column list from the
\* first record, then COPY.  A record without get() fails the preparation;
\* psycopg (3) has no copy_expert; with psycopg2 the COPY statement runs
\* and succeeds or fails as a whole.
SyncInsert(p) ==
    LET r == sync[p] IN
    /\ r.pc = "insert"
    /\ IF ~IsMapping(r.records[1])
       THEN Finish(p, <<>>, Raise(p, r, "columns"))
       ELSE IF Engine # "postgresql" \/ ~AllMappings(r.records)
                 \/ driver = "psycopg3"
       THEN AddRows(p, <<>>, [r EXCEPT !.pc = FallbackOf("insert")])
       ELSE \/ AddRows(p, r.records,
                       [r EXCEPT !.pc = "cache_clear",
                                 !.count = Len(r.records)])
            \/ AddRows(p, <<>>, [r EXCEPT !.pc = FallbackOf("insert")])
    /\ UNCHANGED <<now, driver, hashseed, cache, rd, nSync, nRead, hist>>

\* The batches of _values_bulk_insert: records[i:i + batch_size].
NumBatches(n) == (n + ValuesBatchSize - 1) \div ValuesBatchSize

BatchesUpTo(s, k) == SubSeq(s, 1, Min(Len(s), k * ValuesBatchSize))

\* _values_bulk_insert: k batches are inserted, then either the loop is
\* over (k = all) or batch k+1 fails: in its preparation (a record without
\* get(), a value the driver cannot adapt) or in the database, which aborts
\* an open transaction.  Every failure goes on to _fallback_executemany
\* with the rows of the k batches still inserted.
SyncValues(p) ==
    LET r == sync[p]
        n == Len(r.records)
    IN
    /\ r.pc = "values"
    /\ \E k \in 0..NumBatches(n) :
         /\ AllMappings(BatchesUpTo(r.records, k))
         /\ IF k = NumBatches(n)
            THEN AddRows(p, r.records,
                         [r EXCEPT !.pc = "cache_clear", !.count = n])
            ELSE \E dbError \in BOOLEAN :
                   /\ dbError => AllMappings(BatchesUpTo(r.records, k + 1))
                   /\ AddRows(p, BatchesUpTo(r.records, k),
                              [r EXCEPT !.pc = FallbackOf("values"),
                                        !.aborted = dbError
                                                    /\ driver # "psycopg2",
                                        !.locked = @ \/ (dbError
                                                    /\ driver # "psycopg2")])
    /\ UNCHANGED <<now, driver, hashseed, cache, rd, nSync, nRead, hist>>

\* _fallback_executemany: the value tuples are built first (a record
\* without get() raises before any statement); then the rows are inserted
\* one statement each, j of them before an error, if any.  In an aborted
\* transaction the first statement fails.
SyncExecutemany(p) ==
    LET r == sync[p]
        n == Len(r.records)
    IN
    /\ r.pc = "executemany"
    /\ IF ~AllMappings(r.records) \/ r.aborted
       THEN Finish(p, <<>>, Raise(p, r, "insert"))
       ELSE \E j \in 0..n :
              IF j = n
              THEN AddRows(p, r.records,
                           [r EXCEPT !.pc = "cache_clear", !.count = n])
              ELSE Finish(p, SubSeq(r.records, 1, j), Raise(p, r, "insert"))
    /\ UNCHANGED <<now, driver, hashseed, cache, rd, nSync, nRead, hist>>

\* A cache step that lets the error of cache.clear() leave post.
ClearFailedRaises(p) ==
    /\ cache' = cache
    /\ sync' = [sync EXCEPT ![p] =
                   [Raise(p, sync[p], "cache") EXCEPT !.clear_failed = TRUE]]

\* cache.clear() raises: the except clause of _smart_cache_clear logs a
\* warning and returns, the entries stay.
ClearFailed(p) ==
    /\ cache' = cache
    /\ sync' = [sync EXCEPT ![p].pc = "commit", ![p].clear_failed = TRUE]

\* _smart_cache_clear: cache.clear(), still inside transaction.atomic().
SyncCacheClear(p) ==
    /\ sync[p].pc = "cache_clear"
    /\ \/ cache' = <<>> /\ sync' = [sync EXCEPT ![p].pc = "commit"]
       \/ ClearFailed(p)
    /\ UNCHANGED <<now, driver, hashseed, db, rd, nSync, nRead, hist>>

\* Leaving transaction.atomic() without an exception: the open transaction
\* (if the driver opened one) is committed, and post answers 200.
SyncCommit(p) ==
    LET r == sync[p] IN
    /\ r.pc = "commit"
    /\ db' = [db EXCEPT ![r.table] = @ (+) r.pending]
    /\ hist' = [hist EXCEPT ![r.table] = [state |-> "synced", at |-> now]]
    /\ sync' = [q \in SyncProcs |->
                   IF q = p THEN Response(r, 200, "ok", TRUE, r.count)
                   ELSE IF r.pending # EmptyBag THEN Mark(sync[q], r.table)
                   ELSE sync[q]]
    /\ UNCHANGED <<now, driver, hashseed, cache, rd, nSync, nRead>>

\* ---------------------------------------------------------------- the cache
\* LocMemCache: an entry is a value and the second it expires at (set at
\* the time of cache.set, from the timeout given); at is history, the
\* minute the entry was stored.
NoValue == [hit |-> FALSE, data |-> <<>>, total |-> 0, stamp |-> 0]

HasExpired(e, t) == e.exp <= t * 60

CacheGet(c, k, t) ==
    IF k \in DOMAIN c /\ ~HasExpired(c[k], t) THEN c[k].val ELSE NoValue

CacheSet(c, k, v, timeout, t) ==
    (k :> [val |-> v, exp |-> t * 60 + timeout, at |-> t]) @@ c

\* ------------------------------------------------------------ read requests
Views == {"clients", "master", "products"}

TableOf(view) ==
    CASE view = "clients"  -> "rrc_clients"
      [] view = "master"   -> "acc_master"
      [] view = "products" -> "acc_product"

\* cache_duration_minutes of each view.
CacheMinutes(view) ==
    CASE view = "clients"  -> CLIENT_DATA_CACHE_MINUTES
      [] view = "master"   -> MASTER_DATA_CACHE_MINUTES
      [] view = "products" -> PRODUCT_DATA_CACHE_MINUTES

\* Text is a sequence of characters; a request parameter that is absent
\* is the empty text.  Null is the SQL NULL of a text column.
Null == <<"NULL">>

\* A NUMERIC(n, 3) amount: high * 2^43 + milli / 1000.  The columns hold up
\* to 16 digits, so amounts of 2^43 and more fit; high tells which power
\* of two the amount lies above, milli is the rest in thousandths (kept
\* small in the model, so that the sign of an amount is that of high, or
\* that of milli when high is 0).
Decimal(h, m) == [high |-> h, milli |-> m]
Zero == Decimal(0, 0)
Plus(x, y) == Decimal(x.high + y.high, x.milli + y.milli)
Minus(x, y) == Decimal(x.high - y.high, x.milli - y.milli)
Positive(x) == x.high > 0 \/ (x.high = 0 /\ x.milli > 0)

\* A nullable amount is a set of at most one amount; the empty set is NULL.
NullNumber == {}

\* COALESCE(x, d)
Coalesce(x, d) == IF x = NullNumber THEN d ELSE CHOOSE v \in x : TRUE

\* n / d rounded to the nearest integer, halves to even (n >= 0, d > 0).
RoundDiv(n, d) ==
    LET q == n \div d
        r == n % d
    IN  IF 2 * r > d \/ (2 * r = d /\ q % 2 = 1) THEN q + 1 ELSE q

\* The doubles between 2^43 and 2^44 are 1/512 apart.
FloatGrid == 512

\* float(record[field]) as JSON emits it: the amount is rounded to the
\* nearest double and the double is written with the fewest digits that
\* read back as it.  Below 2^43 doubles lie closer than 1/1000 and every
\* amount is emitted as it is; from 2^43 on, several amounts share a
\* double and come out as the same number.
Float(x) ==
    IF x.high = 1 /\ x.milli >= 0
    THEN Decimal(x.high,
                 RoundDiv(RoundDiv(x.milli * FloatGrid, 1000) * 1000,
                          FloatGrid))
    ELSE x

\* str.strip(): leading and trailing blanks removed.
RECURSIVE LStrip(_)
LStrip(text) ==
    IF text # <<>> /\ Head(text) = " " THEN LStrip(Tail(text)) ELSE text

RECURSIVE RStrip(_)
RStrip(text) ==
    IF text # <<>> /\ text[Len(text)] = " "
    THEN RStrip(SubSeq(text, 1, Len(text) - 1))
    ELSE text

Strip(text) == RStrip(LStrip(text))

\* Case folding of ILIKE, on the letters of the model.
Lower(c) == IF c = "A" THEN "a" ELSE IF c = "B" THEN "b"
            ELSE IF c = "X" THEN "x" ELSE c

\* value LIKE pattern, case folded: % stands for any text, _ for any one
\* character, every other character for itself.
RECURSIVE LikeMatch(_, _)
LikeMatch(value, pattern) ==
    IF pattern = <<>> THEN value = <<>>
    ELSE IF Head(pattern) = "%"
    THEN \/ LikeMatch(value, Tail(pattern))
         \/ value # <<>> /\ LikeMatch(Tail(value), pattern)
    ELSE IF Head(pattern) = "_"
    THEN value # <<>> /\ LikeMatch(Tail(value), Tail(pattern))
    ELSE /\ value # <<>>
         /\ Lower(Head(value)) = Lower(Head(pattern))
         /\ LikeMatch(Tail(value), Tail(pattern))

\* column ILIKE %s: NULL matches nothing.
ILike(value, pattern) == value # Null /\ LikeMatch(value, pattern)

\* f'%{search}%'
search_param(term) == <<"%">> \o term \o <<"%">>

\* A request of a read endpoint: the view and its query parameters as sent.
Query(v, p, s, term, cat, comp, br) ==
    [view |-> v, page |-> p, page_size |-> s, search |-> term,
     category |-> cat, company |-> comp, brand |-> br]

\* The query parameters the read endpoints are offered while syncs run.
ReadRequests ==
    { Query("clients",  1, 1, <<>>, <<>>, <<>>, <<>>),
      Query("clients",  2, 1, <<>>, <<>>, <<>>, <<>>),
      Query("master",   1, 1, <<>>, <<>>, <<>>, <<>>),
      Query("products", 1, 1, <<>>, <<>>, <<>>, <<>>) }

\* The parameters as the views use them: page_size capped, the texts
\* stripped; products/all reads no page and no page_size.
Effective(q) ==
    [q EXCEPT !.page_size = Min(q.page_size, MAX_PAGE_SIZE),
              !.search = Strip(q.search),
              !.category = Strip(q.category),
              !.company = Strip(q.company),
              !.brand = Strip(q.brand)]

\* hash(text) of a str: 0 for the empty string, else a number set by the
\* seed of the process; hashseed gives it for the texts that requests
\* search and filter with.
HashedTexts ==
    <<<<"a">>, <<"B">>, <<"_">>, <<"C">>, <<"x">>, <<"X">>, <<"y">>>>

\* Hash values under which these texts all differ.
NoCollisions ==
    [text \in Range(HashedTexts) |->
       CHOOSE i \in DOMAIN HashedTexts : HashedTexts[i] = text]

hash(text) == IF text = <<>> THEN 0 ELSE hashseed[text]

\* f'rrc_clients_v2_p{page}_s{page_size}_{hash(search)}',
\* f'acc_product_v2_{hash(search)}_{hash(category)}_...'
CacheKey(q) ==
    IF q.view = "products"
    THEN <<"data", q.view, 0, 0, hash(q.search), hash(q.category),
           hash(q.company), hash(q.brand)>>
    ELSE <<"data", q.view, q.page, q.page_size, hash(q.search), 0, 0, 0>>

\* 'rrc_clients_last_updated_v2' and its like: one per view.
LastUpdatedKey(view) ==
    <<"last_updated", view, 0, 0, 0, 0, 0, 0>>

\* The columns of a row that the views filter and order on.  Rows 2 and 3
\* have the same name; row 4 has none.
name(r) == IF r = 1 THEN <<"a">> ELSE IF r \in {2, 3} THEN <<"b">> ELSE Null
code(r) == IF r = 1 THEN <<"b">> ELSE <<"c">>
district(r) == IF r = 4 THEN <<"a">> ELSE Null
place(r) == district(r)
catagory(r) == IF r = 1 THEN <<"y">> ELSE IF r = 2 THEN <<"x">>
               ELSE IF r = 3 THEN Null ELSE <<"x", "y">>
company(r) == IF r \in {1, 2} THEN <<"x">> ELSE <<"y">>
brand(r) == IF r = 2 THEN <<"y">> ELSE Null

\* The place of a row's name in ORDER BY "name" (ascending, NULLs last).
NameRank(r) == IF r = 1 THEN 1 ELSE IF r \in {2, 3} THEN 2 ELSE 3

\* The columns of acc_master the balance is computed from, per row.
opening_balance(r) ==
    IF r = 1 THEN {Decimal(0, 10)} ELSE IF r = 2 THEN {Zero}
    ELSE IF r = 3 THEN NullNumber ELSE {Decimal(0, 1)}
debit(r) ==
    IF r \in {1, 2} THEN {Decimal(0, 5)}
    ELSE IF r = 3 THEN {Decimal(1, 1)} ELSE NullNumber
credit(r) ==
    IF r = 1 THEN {Zero} ELSE IF r = 2 THEN {Decimal(0, 5)}
    ELSE IF r = 3 THEN NullNumber ELSE {Decimal(0, 3)}

\* COALESCE("opening_balance", 0) + COALESCE("debit", 0)
\*   - COALESCE("credit", 0)
balance(r) ==
    Minus(Plus(Coalesce(opening_balance(r), Zero), Coalesce(debit(r), Zero)),
          Coalesce(credit(r), Zero))

\* The balance field of a row of the response.
balance_field(r) == Float(balance(r))

\* The columns the search of each view goes over.
SearchFields(view, r) ==
    CASE view = "clients"  -> {name(r), code(r), district(r)}
      [] view = "master"   -> {name(r), code(r), place(r)}
      [] view = "products" -> {name(r), code(r)}

\* if term: '... "column" ILIKE %s'
Filter(term, columns) ==
    term # <<>> => \E c \in columns : ILike(c, search_param(term))

\* The WHERE clause of each view.
Selected(q, r) ==
    CASE q.view = "clients"  -> Filter(q.search, SearchFields(q.view, r))
      [] q.view = "master"   -> /\ Positive(balance(r))
                                /\ Filter(q.search, SearchFields(q.view, r))
      [] q.view = "products" -> /\ Filter(q.search, SearchFields(q.view, r))
                                /\ Filter(q.category, {catagory(r)})
                                /\ Filter(q.company, {company(r)})
                                /\ Filter(q.brand, {brand(r)})

Matching(q, b) ==
    LET keep == {r \in DOMAIN b : Selected(q, r)}
    IN  [r \in keep |-> b[r]]

\* SELECT COUNT(*) ... WHERE
CountQuery(q, b) == BagSize(Matching(q, b))

\* The orders ORDER BY "name" can return the rows of a bag in: ascending
\* by name, rows of equal name in any order (the database promises none,
\* and none that is the same from one statement to the next).
RECURSIVE Orderings(_)
Orderings(b) ==
    IF DOMAIN b = {} THEN {<<>>}
    ELSE LET lo == CHOOSE x \in DOMAIN b :
                     \A y \in DOMAIN b : NameRank(x) <= NameRank(y)
             firsts == {x \in DOMAIN b : NameRank(x) = NameRank(lo)}
         IN  UNION {{<<x>> \o t : t \in Orderings(b (-) SetToBag({x}))} :
                    x \in firsts}

\* A page that is the last rows when the offset is beyond them.
PageSliceClamped(rows, offset, limit) ==
    IF offset >= Len(rows)
    THEN SubSeq(rows, Len(rows) - Min(Len(rows), limit) + 1, Len(rows))
    ELSE SubSeq(rows, offset + 1, Min(Len(rows), offset + limit))

\* LIMIT limit OFFSET offset
PageSlice(rows, offset, limit) ==
    SubSeq(rows, offset + 1, Min(Len(rows), offset + limit))

\* SELECT ... WHERE ... ORDER BY "name" [LIMIT page_size OFFSET offset]:
\* the row lists the statement can return.
DataQuery(q, b) ==
    LET all == Orderings(Matching(q, b))
        offset == (q.page - 1) * q.page_size
    IN  IF q.view = "products" THEN all
        ELSE {PageSlice(o, offset, q.page_size) : o \in all}

\* A read record: the parameters, the results of the two queries, and the
\* response (status is 0 until the request is answered).  History: stored,
\* the minute the cached page that is returned was stored; seen, the
\* number of sync requests that had arrived before this one; cache_error,
\* whether a call of the cache raised in this request; params, the
\* parameters as the client sent them; all, whether the request went to
\* the unpaginated endpoint of the view; first and walk, the page a client
\* that asks for one page after the other began with, and the rows of the
\* pages it was given before this one.
IdleRead ==
    [pc |-> "idle",
     req |-> Query("clients", 1, 1, <<>>, <<>>, <<>>, <<>>),
     total |-> 0, data |-> <<>>, from_cache |-> FALSE,
     age |-> 0, stored |-> 0, seen |-> 0, status |-> 0,
     cache_error |-> FALSE,
     params |-> Query("clients", 1, 1, <<>>, <<>>, <<>>, <<>>),
     all |-> FALSE, first |-> 1, walk |-> <<>>]

\* The response of the views' except clause: status 500, no data.
ReadError(req, n) ==
    [IdleRead EXCEPT !.pc = "done", !.req = req, !.params = req,
                     !.status = 500, !.seen = n]

\* A total_pages that drops the last, partly filled page.
TotalPagesFloor(total_records, page_size) == total_records \div page_size

\* total_pages = (total_records + page_size - 1) // page_size
TotalPages(total_records, page_size) ==
    (total_records + page_size - 1) \div page_size

\* The 'pagination' object and 'records_on_page' of a response.
total_pages(r) == TotalPages(r.total, r.req.page_size)
has_next(r) == r.req.page < total_pages(r)
has_previous(r) == r.req.page > 1
records_on_page(r) == Len(r.data)

\* A test that takes a cached result without rows for no result.
CachedRows(value) == value.hit /\ value.data # <<>>

\* 'if cached_data': the cached value is the result dict with its keys,
\* which is true whatever its row list holds.
Cached(value) == value.hit

\* GetClientsView.get, GetMasterView.get, GetAllProductsView.get up to the
\* validity check: cache.get(cache_key), cache.get(last_updated_key); the
\* cached page is returned when both values were found and the view's
\* shared timestamp is younger than cache_duration_minutes.  The request
\* is the next of a client that began at page first and was given the rows
\* walk so far.
Lookup(g, q, first, walk) ==
    LET req == Effective(q)
        k == CacheKey(req)
        cached_data == CacheGet(cache, k, now)
        last_updated == CacheGet(cache, LastUpdatedKey(req.view), now)
        cache_age == now - last_updated.stamp
        cache_valid == /\ Cached(cached_data)
                       /\ last_updated.hit
                       /\ cache_age < CacheMinutes(req.view)
        r == [IdleRead EXCEPT !.req = req, !.params = q, !.seen = nSync,
                              !.first = first, !.walk = walk]
    IN
    rd' = [rd EXCEPT ![g] =
             IF cache_valid
             THEN [r EXCEPT !.pc = "done", !.from_cache = TRUE,
                            !.data = cached_data.data,
                            !.total = cached_data.total,
                            !.age = cache_age, !.stored = cache[k].at,
                            !.status = 200]
             ELSE [r EXCEPT !.pc = IF req.view = "products" THEN "fetch"
                                   ELSE "count"]]

\* The two cache.get calls are inside the view's try block: when the cache
\* raises, the except clause answers 500.
LookupFails(g, q) ==
    rd' = [rd EXCEPT ![g] =
             [ReadError(Effective(q), nSync) EXCEPT !.cache_error = TRUE]]

\* A request arrives at a paginated endpoint or at products/all.
ReadLookup(g, q) ==
    /\ rd[g].pc \in {"idle", "done"}
    /\ nSync + nRead < MaxRequests
    /\ sync[SecondWriter].pc = "idle"
    /\ nRead' = nRead + 1
    /\ \/ Lookup(g, q, q.page, <<>>)
       \/ LookupFails(g, q)
    /\ UNCHANGED <<now, driver, hashseed, db, cache, sync, nSync, hist>>

\* _fetch_clients_optimized, _fetch_master_optimized: the count query.
ReadCount(g) ==
    LET r == rd[g] IN
    /\ r.pc = "count"
    /\ rd' = [rd EXCEPT ![g] =
                 [r EXCEPT !.pc = "fetch",
                           !.total = CountQuery(r.req,
                                                db[TableOf(r.req.view)])]]
    /\ UNCHANGED <<now, driver, hashseed, db, cache, sync, nSync, nRead, hist>>

\* _fetch_clients_optimized, _fetch_master_optimized raise on these
\* parameters: the database rejects a negative LIMIT or OFFSET, and
\* (total_records + page_size - 1) // page_size divides by zero.
FetchRaises(q) ==
    /\ q.view # "products"
    /\ \/ q.page_size <= 0
       \/ (q.page - 1) * q.page_size < 0

\* A fetch that caches what it has when it raises.
FetchFailsStoring(g) ==
    /\ cache' = CacheSet(cache, CacheKey(rd[g].req),
                         [hit |-> TRUE, data |-> <<>>, total |-> rd[g].total,
                          stamp |-> 0],
                         CacheMinutes(rd[g].req.view) * 60, now)
    /\ rd' = [rd EXCEPT ![g] = ReadError(rd[g].req, rd[g].seen)]

\* The fetch raises, get's except clause answers 500: the cache.set calls
\* are not reached.
FetchFails(g) ==
    /\ cache' = cache
    /\ rd' = [rd EXCEPT ![g] = ReadError(rd[g].req, rd[g].seen)]

\* The data query (a statement of its own; the only one of products/all,
\* whose total_records is len(results)).
ReadFetch(g) ==
    LET r == rd[g] IN
    /\ r.pc = "fetch"
    /\ IF FetchRaises(r.req) THEN FetchFails(g)
       ELSE /\ cache' = cache
            /\ \E rows \in DataQuery(r.req, db[TableOf(r.req.view)]) :
                 rd' = [rd EXCEPT ![g] =
                          [r EXCEPT !.pc = "store", !.data = rows,
                                    !.total = IF r.req.view = "products"
                                              THEN Len(rows) ELSE r.total]]
    /\ UNCHANGED <<now, driver, hashseed, db, sync, nSync, nRead, hist>>

\* The timeout cache.set would use were the views to give none: TIMEOUT of
\* CACHES['default'], in seconds.
CacheTimeoutDefault(view) == 1800

\* The timeout the views give cache.set, in seconds.
CacheTimeout(view) == CacheMinutes(view) * 60

\* cache.set(cache_key, result, timeout), cache.set(last_updated_key,
\* current_time, timeout), and the response.
Store(g) ==
    LET r == rd[g]
        v == r.req.view
        page == [hit |-> TRUE, data |-> r.data, total |-> r.total,
                 stamp |-> 0]
        time == [hit |-> TRUE, data |-> <<>>, total |-> 0, stamp |-> now]
    IN
    /\ cache' = CacheSet(CacheSet(cache, CacheKey(r.req), page,
                                  CacheTimeout(v), now),
                         LastUpdatedKey(v), time, CacheTimeout(v), now)
    /\ rd' = [rd EXCEPT ![g] = [r EXCEPT !.pc = "done", !.status = 200]]

\* When one of the two cache.set calls raises, the except clause answers
\* 500; the entry stored before the call that raised stays.
StoreFails(g) ==
    LET r == rd[g]
        v == r.req.view
        page == [hit |-> TRUE, data |-> r.data, total |-> r.total,
                 stamp |-> 0]
    IN
    /\ \/ cache' = cache
       \/ cache' = CacheSet(cache, CacheKey(r.req), page, CacheTimeout(v),
                            now)
    /\ rd' = [rd EXCEPT ![g] =
                 [ReadError(r.req, r.seen) EXCEPT !.cache_error = TRUE]]

ReadStore(g) ==
    /\ rd[g].pc = "store"
    /\ \/ Store(g)
       \/ StoreFails(g)
    /\ UNCHANGED <<now, driver, hashseed, db, sync, nSync, nRead, hist>>

\* GetAllClientsView.get, GetAllMasterView.get: the query of the paginated
\* endpoint without LIMIT and OFFSET; the row lists it can return.
AllQuery(q, b) == Orderings(Matching(q, b))

\* An unpaginated read that looks into the pages cached for the paginated
\* endpoint first.
AllFromCache(g, q) ==
    LET req == Effective(q)
        cached_data == CacheGet(cache, CacheKey(req), now)
    IN  \E rows \in IF cached_data.hit THEN {cached_data.data}
                    ELSE AllQuery(req, db[TableOf(req.view)]) :
          rd' = [rd EXCEPT ![g] =
                   [IdleRead EXCEPT !.pc = "done", !.req = req, !.params = q,
                                    !.all = TRUE, !.data = rows,
                                    !.total = Len(rows), !.status = 200,
                                    !.seen = nSync]]

\* The requests the unpaginated endpoints are offered while syncs run.
AllRequests ==
    { Query("clients", 1, 1, <<>>, <<>>, <<>>, <<>>),
      Query("master",  1, 1, <<>>, <<>>, <<>>, <<>>) }

\* GetAllClientsView.get, GetAllMasterView.get: one query, no cache;
\* total_records is len(results).
All(g, q) ==
    LET req == Effective(q) IN
    \E rows \in AllQuery(req, db[TableOf(req.view)]) :
      rd' = [rd EXCEPT ![g] =
               [IdleRead EXCEPT !.pc = "done", !.req = req, !.params = q,
                                !.all = TRUE, !.data = rows,
                                !.total = Len(rows), !.status = 200,
                                !.seen = nSync]]

\* A request arrives at /clients/all or /master/all.
ReadAllRows(g, q) ==
    /\ rd[g].pc \in {"idle", "done"}
    /\ nSync + nRead < MaxRequests
    /\ sync[SecondWriter].pc = "idle"
    /\ nRead' = nRead + 1
    /\ All(g, q)
    /\ UNCHANGED <<now, driver, hashseed, db, cache, sync, nSync, hist>>

\* ------------------------------------------------------------------ time
\* The clock advances.  It is read only by the cache and by the views'
\* freshness test, so a tick while nothing is cached shifts every later
\* timestamp alike and changes no comparison: such ticks are left out.
Tick ==
    /\ now + TickMinutes <= MaxTime
    /\ cache # <<>>
    /\ now' = now + TickMinutes
    /\ UNCHANGED <<driver, hashseed, db, cache, sync, rd, nSync, nRead, hist>>

\* --------------------------------------------------------- specification
\* Every table holds one row when the service starts; nothing is cached.
Init ==
    /\ now = 0
    /\ driver \in Drivers
    /\ db = [t \in valid_tables |-> SeqToBag(<<1>>)]
    /\ cache = <<>>
    /\ sync = [p \in SyncProcs |-> IdleSync]
    /\ rd = [g \in Readers |-> IdleRead]
    /\ nSync = 0
    /\ nRead = 0
    /\ hist = [t \in valid_tables |-> [state |-> "init", at |-> 0]]
    /\ hashseed = NoCollisions

Next ==
    \/ \E p \in SyncProcs, body \in SyncBodies : SyncReceive(p, body)
    \/ \E p \in SyncProcs : SyncTruncate(p)
    \/ \E p \in SyncProcs : SyncInsert(p)
    \/ \E p \in SyncProcs : SyncValues(p)
    \/ \E p \in SyncProcs : SyncExecutemany(p)
    \/ \E p \in SyncProcs : SyncCacheClear(p)
    \/ \E p \in SyncProcs : SyncCommit(p)
    \/ \E g \in Readers, q \in ReadRequests : ReadLookup(g, q)
    \/ \E g \in Readers : ReadCount(g)
    \/ \E g \in Readers : ReadFetch(g)
    \/ \E g \in Readers : ReadStore(g)
    \/ \E g \in Readers, q \in AllRequests : ReadAllRows(g, q)
    \/ Tick

Spec == Init /\ [][Next]_vars

\* ------------------------------------------------- the sync requests alone
\* The sync requests without reads, each handled by a worker that goes on
\* with its request as long as it has a step to take.
SyncStep(p) ==
    \/ SyncTruncate(p)
    \/ SyncInsert(p)
    \/ SyncValues(p)
    \/ SyncExecutemany(p)
    \/ SyncCacheClear(p)
    \/ SyncCommit(p)

SyncNext ==
    \/ \E p \in SyncProcs, body \in SyncBodies : SyncReceive(p, body)
    \/ \E p \in SyncProcs : SyncTruncate(p)
    \/ \E p \in SyncProcs : SyncInsert(p)
    \/ \E p \in SyncProcs : SyncValues(p)
    \/ \E p \in SyncProcs : SyncExecutemany(p)
    \/ \E p \in SyncProcs : SyncCacheClear(p)
    \/ \E p \in SyncProcs : SyncCommit(p)

SyncSpec ==
    Init /\ [][SyncNext]_vars /\ \A p \in SyncProcs : WF_vars(SyncStep(p))

\* ------------------------------------------- the read endpoints alone
\* A second specification: one client reads a database that no sync
\* changes, through a cache that works.  The tables hold any of the rows
\* 1..4; the client asks a paginated endpoint for a page and then for the
\* pages after it, repeats a request, asks an unpaginated endpoint, or
\* asks for a path the service does not route.
MaxPages == 3

Rows == 1 .. 4

TableContents == {SetToBag(rows) : rows \in SUBSET Rows}

PageSizes == {1, 2, MAX_PAGE_SIZE + 1}

SearchTerms == {<<>>, <<" ">>, <<"a">>, <<"B", " ">>, <<"_">>}

QueryRequests ==
    {Query(v, p, n, term, <<>>, <<>>, <<>>) :
        v \in {"clients", "master"}, p \in 1 .. MaxPages, n \in PageSizes,
        term \in SearchTerms}
    \cup
    {Query("products", 1, 1, term, cat, comp, br) :
        term \in {<<>>, <<"a">>, <<"C">>},
        cat \in {<<>>, <<"x">>, <<"_">>},
        comp \in {<<>>, <<"X">>},
        br \in {<<>>, <<" ">>, <<"y">>}}

ReadInit ==
    /\ now = 0
    /\ driver = "psycopg2"
    /\ \E content \in TableContents : db = [t \in valid_tables |-> content]
    /\ cache = <<>>
    /\ sync = [p \in SyncProcs |-> IdleSync]
    /\ rd = [g \in Readers |-> IdleRead]
    /\ nSync = 0
    /\ nRead = 0
    /\ hist = [t \in valid_tables |-> [state |-> "init", at |-> 0]]
    /\ hashseed = NoCollisions

\* The client's first request.
ReadFirst(g, q) ==
    /\ rd[g].pc = "idle"
    /\ Lookup(g, q, q.page, <<>>)
    /\ UNCHANGED <<now, driver, hashseed, db, cache, sync, nSync, nRead, hist>>

\* The client was told there is a next page and asks for it.
ReadNextPage(g) ==
    LET r == rd[g] IN
    /\ r.pc = "done" /\ r.status = 200 /\ ~r.all
    /\ r.req.view # "products"
    /\ has_next(r)
    /\ r.req.page < MaxPages
    /\ Lookup(g, [r.params EXCEPT !.page = r.req.page + 1], r.first,
              r.walk \o r.data)
    /\ UNCHANGED <<now, driver, hashseed, db, cache, sync, nSync, nRead, hist>>

\* The client sends the request it was just answered once more.
ReadAgain(g) ==
    LET r == rd[g] IN
    /\ r.pc = "done" /\ r.status = 200 /\ ~r.all /\ ~r.from_cache
    /\ Lookup(g, r.params, r.first, r.walk)
    /\ UNCHANGED <<now, driver, hashseed, db, cache, sync, nSync, nRead, hist>>

\* The client asks an unpaginated endpoint.
ReadAll(g, q) ==
    /\ rd[g].pc = "idle"
    /\ q.view \in {"clients", "master"}
    /\ q.page = 1 /\ q.page_size = 1
    /\ All(g, q)
    /\ UNCHANGED <<now, driver, hashseed, db, cache, sync, nSync, nRead, hist>>

\* A request for a path that urlpatterns does not route, such as POST
\* /refresh-cache: no view runs, the URL resolver answers 404.
Unrouted(g, path) ==
    /\ rd[g].pc \in {"idle", "done"}
    /\ rd' = [rd EXCEPT ![g] =
                 [IdleRead EXCEPT !.pc = "done", !.status = 404,
                                  !.req.view = path, !.params.view = path]]
    /\ UNCHANGED <<now, driver, hashseed, db, cache, sync, nSync, nRead, hist>>

\* int(text) of a request parameter: an optional sign and digits, or
\* ValueError.
RECURSIVE DigitsValue(_)
DigitsValue(text) ==
    IF text = <<>> THEN 0
    ELSE 10 * DigitsValue(SubSeq(text, 1, Len(text) - 1))
         + (CHOOSE d \in 0..9 :
              <<"0", "1", "2", "3", "4", "5", "6", "7", "8", "9">>[d + 1]
                = text[Len(text)])

int(text) ==
    LET signed == text # <<>> /\ text[1] \in {"-", "+"}
        digits == IF signed THEN Tail(text) ELSE text
        ok == /\ digits # <<>>
              /\ \A i \in DOMAIN digits :
                   digits[i] \in {"0", "1", "2", "3", "4", "5", "6", "7",
                                  "8", "9"}
    IN  [ok |-> ok,
         value |-> IF ~ok THEN 0
                   ELSE IF signed /\ text[1] = "-" THEN 0 - DigitsValue(digits)
                   ELSE DigitsValue(digits)]

\* The page and page_size parameters a client may send, as texts.
ParamTexts == {<<"1">>, <<"0">>, <<"-", "1">>, <<"a">>}

\* A request with page and page_size as sent: int() of either raises
\* (answered 500 before the cache is asked), or the view goes on with the
\* numbers, whatever they are.  nRead counts these requests.
ReadParams(g, view, page, page_size) ==
    LET p == int(page)
        n == int(page_size)
        q == Query(view, p.value, n.value, <<>>, <<>>, <<>>, <<>>)
    IN
    /\ rd[g].pc \in {"idle", "done"}
    /\ nRead < MaxRequests
    /\ nRead' = nRead + 1
    /\ IF p.ok /\ n.ok THEN Lookup(g, q, q.page, <<>>)
       ELSE rd' = [rd EXCEPT ![g] = ReadError(q, nSync)]
    /\ UNCHANGED <<now, driver, hashseed, db, cache, sync, nSync, hist>>

\* The database fails in one of the view's queries.
ReadDbError(g) ==
    /\ rd[g].pc \in {"count", "fetch"}
    /\ FetchFails(g)
    /\ UNCHANGED <<now, driver, hashseed, db, sync, nSync, nRead, hist>>

\* The page is cached and the response sent.
ReadStored(g) ==
    /\ rd[g].pc = "store"
    /\ Store(g)
    /\ UNCHANGED <<now, driver, hashseed, db, sync, nSync, nRead, hist>>

ReadNext ==
    \/ \E g \in Readers, q \in QueryRequests : ReadFirst(g, q)
    \/ \E g \in Readers : ReadNextPage(g)
    \/ \E g \in Readers : ReadAgain(g)
    \/ \E g \in Readers, q \in QueryRequests : ReadAll(g, q)
    \/ \E g \in Readers : ReadCount(g)
    \/ \E g \in Readers : ReadFetch(g)
    \/ \E g \in Readers : ReadStored(g)
    \/ \E g \in Readers : Unrouted(g, "refresh-cache")

ReadSpec == ReadInit /\ [][ReadNext]_vars

\* ------------------------------------------------------ reads that fail
\* One client sends requests with page and page_size of any kind, one
\* after the other, to a database that does not change and may fail.
ParamNext ==
    \/ \E g \in Readers, v \in {"clients", "master"},
          page \in ParamTexts, page_size \in ParamTexts :
         ReadParams(g, v, page, page_size)
    \/ \E g \in Readers : ReadCount(g)
    \/ \E g \in Readers : ReadFetch(g)
    \/ \E g \in Readers : ReadStored(g)
    \/ \E g \in Readers : ReadDbError(g)

ParamSpec == ReadInit /\ [][ParamNext]_vars

\* ------------------------------------------------------- the cache keys
\* One client sends requests that differ in view, page and search term,
\* one after the other, to a worker process whose hash values are any:
\* hash() of a str has finitely many values, so two texts can have the
\* same.
MaxHash == 2         \* hash values of the search terms: 1..MaxHash

Seeds ==
    {[NoCollisions EXCEPT ![<<"a">>] = h1, ![<<"B">>] = h2] :
        h1, h2 \in 1..MaxHash}

KeyRequests ==
    {Query(v, p, 1, term, <<>>, <<>>, <<>>) :
        v \in {"clients", "master"}, p \in 1..2,
        term \in {<<>>, <<"a">>, <<"B">>}}
    \cup
    {Query("products", 1, 1, term, <<>>, <<>>, <<>>) :
        term \in {<<"a">>, <<"B">>}}

KeyInit ==
    /\ now = 0
    /\ driver = "psycopg2"
    /\ \E content \in TableContents : db = [t \in valid_tables |-> content]
    /\ cache = <<>>
    /\ sync = [p \in SyncProcs |-> IdleSync]
    /\ rd = [g \in Readers |-> IdleRead]
    /\ nSync = 0
    /\ nRead = 0
    /\ hist = [t \in valid_tables |-> [state |-> "init", at |-> 0]]
    /\ hashseed \in Seeds

\* The client's next request.
KeyRead(g, q) ==
    /\ rd[g].pc \in {"idle", "done"}
    /\ nRead < MaxRequests
    /\ nRead' = nRead + 1
    /\ Lookup(g, q, q.page, <<>>)
    /\ UNCHANGED <<now, driver, hashseed, db, cache, sync, nSync, hist>>

KeyNext ==
    \/ \E g \in Readers, q \in KeyRequests : KeyRead(g, q)
    \/ \E g \in Readers : ReadCount(g)
    \/ \E g \in Readers : ReadFetch(g)
    \/ \E g \in Readers : ReadStored(g)

KeySpec == KeyInit /\ [][KeyNext]_vars

\* -------------------------------------------- the values of the strategies
\* What the three insertion strategies make of the values of the records,
\* and what the database stores of it.  A text is a sequence of characters;
\* a date and a time of day are one character each here.
MaxRecords == 2      \* records of one request

\* The Python values of a record.
None == [type |-> "NoneType"]
Str(text) == [type |-> "str", text |-> text]
Bool(b) == [type |-> "bool", truth |-> b]
\* An int, by its decimal digits.
Number(digits) == [type |-> "int", digits |-> digits]
Datetime(d, t) == [type |-> "datetime", date |-> d, time |-> t]

\* str(value) of a bool and of an int.
str(value) ==
    IF value.type = "bool"
    THEN (IF value.truth THEN <<"T", "r", "u", "e">>
                         ELSE <<"F", "a", "l", "s", "e">>)
    ELSE value.digits

\* value.strftime('%Y-%m-%d %H:%M:%S') and value.strftime('%Y-%m-%d').
strftime(value, withTime) ==
    IF withTime THEN <<value.date, " ", value.time>> ELSE <<value.date>>

\* text.replace(c, by)
RECURSIVE Replace(_, _, _)
Replace(text, c, by) ==
    IF text = <<>> THEN <<>>
    ELSE (IF Head(text) = c THEN by ELSE <<Head(text)>>)
         \o Replace(Tail(text), c, by)

\* The escapes of _postgresql_copy_insert, in the order of the code.
Escape(text) ==
    Replace(Replace(Replace(Replace(text, "\\", <<"\\", "\\">>),
                            "\t", <<"\\", "t">>),
                    "\n", <<"\\", "n">>),
            "\r", <<"\\", "r">>)

\* record.get(col)
Get(record, col) == IF col \in DOMAIN record THEN record[col] ELSE None

\* The columns of rrc_clients that the records here have values for, in
\* the order of the keys of a request body.
KeyOrder == <<"name", "installationdate">>

TableColumns == Range(KeyOrder)

IsDateColumn(col) == col = "installationdate"

\* A column list made of the keys of all records.
columnsOfAll(records) ==
    SelectSeq(KeyOrder,
              LAMBDA c : \E i \in DOMAIN records : c \in DOMAIN records[i])

\* columns = list(records[0].keys())
columns(records) == SelectSeq(KeyOrder, LAMBDA c : c \in DOMAIN records[1])

\* A field of a line of the COPY data.
CopyField(value) ==
    IF value = None THEN <<"\\", "N">>
    ELSE IF value.type = "datetime" THEN strftime(value, TRUE)
    ELSE IF value.type = "str" THEN Escape(value.text)
    ELSE str(value)

\* sep.join(parts)
RECURSIVE Join(_, _)
Join(parts, sep) ==
    IF parts = <<>> THEN <<>>
    ELSE IF Len(parts) = 1 THEN parts[1]
    ELSE parts[1] \o <<sep>> \o Join(Tail(parts), sep)

\* output: one line per record, '\t'.join(row_data) + '\n'.
RECURSIVE CopyOutput(_, _)
CopyOutput(cols, records) ==
    IF records = <<>> THEN <<>>
    ELSE Join([i \in DOMAIN cols |-> CopyField(Get(records[1], cols[i]))],
              "\t")
         \o <<"\n">> \o CopyOutput(cols, Tail(records))

\* The pieces of a text between the separators.
RECURSIVE Split(_, _)
Split(text, sep) ==
    IF \A i \in DOMAIN text : text[i] # sep THEN <<text>>
    ELSE LET i == CHOOSE k \in DOMAIN text :
                     text[k] = sep /\ \A j \in 1..(k - 1) : text[j] # sep
         IN  <<SubSeq(text, 1, i - 1)>>
             \o Split(SubSeq(text, i + 1, Len(text)), sep)

\* The server's reading of the backslash sequences of a field.
RECURSIVE Unescape(_)
Unescape(field) ==
    IF field = <<>> THEN <<>>
    ELSE IF Head(field) = "\\" /\ Len(field) >= 2
    THEN LET c == field[2]
         IN  <<IF c = "t" THEN "\t" ELSE IF c = "n" THEN "\n"
               ELSE IF c = "r" THEN "\r" ELSE c>>
             \o Unescape(Tail(Tail(field)))
    ELSE <<Head(field)>> \o Unescape(Tail(field))

\* What the database stores: NULL (Null), a text, or a date; Error is the
\* statement failing on the value.
Date(d) == <<"date", d>>
Error == <<"error">>

\* The input function of the column's type, given a text: a varchar column
\* takes it as it is, a date column takes a date, with or without a time of
\* day after it, and keeps the date.
Input(col, text) ==
    LET Dates == {"2024-01-02"}
        Times == {"10:20:30"}
    IN  IF ~IsDateColumn(col) THEN text
        ELSE IF Len(text) = 1 /\ text[1] \in Dates THEN Date(text[1])
        ELSE IF Len(text) = 3 /\ text[1] \in Dates /\ text[2] = " "
                /\ text[3] \in Times THEN Date(text[1])
        ELSE Error

\* COPY ... WITH (FORMAT text, NULL '\N'): a field of a line.
CopyValue(col, field) ==
    IF field = <<"\\", "N">> THEN Null ELSE Input(col, Unescape(field))

\* A parameter of cursor.execute as the database assigns it to a column: a
\* str is a literal of unknown type, read by the column's input function;
\* a bool is a boolean and an int an integer, which are cast to varchar on
\* assignment ('true', the digits) and cannot be assigned to a date.
Assign(col, param) ==
    IF param.type = "str" THEN Input(col, param.text)
    ELSE IF IsDateColumn(col) THEN Error
    ELSE IF param.type = "bool"
    THEN (IF param.truth THEN <<"t", "r", "u", "e">>
                         ELSE <<"f", "a", "l", "s", "e">>)
    ELSE param.digits

\* A value of _values_bulk_insert: the literal NULL, or a parameter.
ValuesValue(col, value) ==
    IF value = None THEN Null
    ELSE IF value.type = "datetime"
    THEN Assign(col, Str(strftime(value, FALSE)))
    ELSE Assign(col, value)

\* A value of _fallback_executemany: always a parameter, None for NULL.
ExecutemanyValue(col, value) ==
    IF value = None THEN Null
    ELSE IF value.type = "datetime"
    THEN Assign(col, Str(strftime(value, FALSE)))
    ELSE Assign(col, value)

\* The row of the table for the values of the column list; a column that
\* is not in the list gets its default, NULL.
Row(cols, values) ==
    [c \in TableColumns |->
       IF \E i \in DOMAIN cols : cols[i] = c
       THEN values[CHOOSE i \in DOMAIN cols : cols[i] = c]
       ELSE Null]

\* The rows a strategy hands to the database for the records, one per
\* record; the statement fails if the column list is empty (a syntax
\* error) or a value is not accepted.  The server reads the COPY data line
\* by line, each line ending with a newline.
CopyRows(cols, records) ==
    LET pieces == Split(CopyOutput(cols, records), "\n")
        lines == SubSeq(pieces, 1, Len(pieces) - 1)
    IN  [i \in DOMAIN lines |->
           LET fields == Split(lines[i], "\t")
           IN  Row(cols, [j \in DOMAIN cols |->
                            IF Len(fields) = Len(cols)
                            THEN CopyValue(cols[j], fields[j])
                            ELSE Error])]

ValuesRows(cols, records) ==
    [i \in DOMAIN records |->
       Row(cols, [j \in DOMAIN cols |->
                    ValuesValue(cols[j], Get(records[i], cols[j]))])]

ExecutemanyRows(cols, records) ==
    [i \in DOMAIN records |->
       Row(cols, [j \in DOMAIN cols |->
                    ExecutemanyValue(cols[j], Get(records[i], cols[j]))])]

RowsOf(step, cols, records) ==
    IF step = "insert" THEN CopyRows(cols, records)
    ELSE IF step = "values" THEN ValuesRows(cols, records)
    ELSE ExecutemanyRows(cols, records)

Accepted(cols, rows) ==
    /\ cols # <<>>
    /\ \A i \in DOMAIN rows : \A c \in TableColumns : rows[i][c] # Error

\* The values of a request body (json.loads): null, a text with the
\* characters that COPY escapes, a date with a time of day as text, true,
\* a number.
JsonValues ==
    {None, Str(<<"\\", "N", "\t">>), Str(<<"2024-01-02", " ", "10:20:30">>),
     Bool(TRUE), Number(<<"7">>)}

JsonRecords ==
    UNION {[keys -> JsonValues] : keys \in SUBSET TableColumns}

RecordLists == UNION {[1..n -> JsonRecords] : n \in 1..MaxRecords}

\* A request that has emptied rrc_clients and is about to insert records.
InsertInit ==
    /\ now = 0
    /\ driver \in Drivers
    /\ db = [t \in valid_tables |-> EmptyBag]
    /\ cache = <<>>
    /\ \E records \in RecordLists :
         sync = [p \in SyncProcs |->
                   IF p = SecondWriter THEN IdleSync
                   ELSE [IdleSync EXCEPT !.pc = "insert",
                                         !.table = "rrc_clients",
                                         !.records = records]]
    /\ rd = [g \in Readers |-> IdleRead]
    /\ nSync = 1
    /\ nRead = 0
    /\ hist = [t \in valid_tables |-> [state |-> "init", at |-> 0]]
    /\ hashseed = NoCollisions

\* A strategy runs: its statement stores its rows, or it fails - on a
\* value the database does not accept, on a missing copy_expert, or on
\* anything else - and the next strategy is tried; after the last one the
\* error leaves post.  What a failed strategy leaves in the table and in
\* the transaction is the matter of Spec.
Strategy(p, step) ==
    LET r == sync[p]
        cols == columns(r.records)
        rows == RowsOf(step, cols, r.records)
    IN
    \/ /\ Accepted(cols, rows)
       /\ step = "insert" => driver = "psycopg2"
       /\ db' = [db EXCEPT ![r.table] = @ (+) SeqToBag(rows)]
       /\ sync' = [sync EXCEPT ![p].pc = "cache_clear",
                               ![p].count = Len(r.records)]
    \/ /\ db' = db
       /\ sync' = [sync EXCEPT ![p] =
                     IF step = "executemany" THEN Raise(p, r, "insert")
                     ELSE [r EXCEPT !.pc = FallbackOf(step)]]

\* _postgresql_copy_insert
InsertCopy(p) ==
    /\ sync[p].pc = "insert"
    /\ Strategy(p, "insert")
    /\ UNCHANGED <<now, driver, hashseed, cache, rd, nSync, nRead, hist>>

\* _values_bulk_insert
InsertValues(p) ==
    /\ sync[p].pc = "values"
    /\ Strategy(p, "values")
    /\ UNCHANGED <<now, driver, hashseed, cache, rd, nSync, nRead, hist>>

\* _fallback_executemany
InsertExecutemany(p) ==
    /\ sync[p].pc = "executemany"
    /\ Strategy(p, "executemany")
    /\ UNCHANGED <<now, driver, hashseed, cache, rd, nSync, nRead, hist>>

InsertNext ==
    \/ \E p \in SyncProcs : InsertCopy(p)
    \/ \E p \in SyncProcs : InsertValues(p)
    \/ \E p \in SyncProcs : InsertExecutemany(p)

InsertSpec == InsertInit /\ [][InsertNext]_vars

\* ====================================================================
\* Properties
\* ====================================================================
\* Request p is answered at this step, after it had entered the
\* transaction.
AnswersFromTransaction(p) == Busy(sync[p]) /\ sync'[p].pc = "done"

\* Read request g is answered from the cache at this step.
Hit(g) == nRead' = nRead + 1 /\ rd'[g].pc = "done" /\ rd'[g].from_cache

\* C1 - atomicity of sync: when POST /sync answers an error, whatever step
\* failed, the table holds exactly the rows it held before the call
\* (no other request having changed it meanwhile).
C1_Atomicity ==
    [][\A p \in SyncProcs :
         /\ (\A body \in SyncBodies :
               SyncReceive(p, body) /\ sync'[p].pc = "done" => db' = db)
         /\ (AnswersFromTransaction(p) /\ sync'[p].status # 200
               /\ ~sync[p].interfered
             => db'[sync[p].table] = sync[p].pre)]_vars

\* C2 - replace correctness: when POST /sync answers 200 for the record
\* list R, the table holds exactly the rows of R and records_processed is
\* len(R).
C2_ReplaceCorrect ==
    [][\A p \in SyncProcs :
         AnswersFromTransaction(p) /\ sync'[p].status = 200
         => /\ db'[sync[p].table] = SeqToBag(sync[p].records)
            /\ sync'[p].count = Len(sync[p].records)]_vars

\* C3 - no partial visibility: a query of a read request that runs while a
\* sync of its table is in progress sees the complete rows from before
\* the sync or the complete rows of the sync, never an empty table or a
\* mixture.
C3_NoPartialVisibility ==
    [][\A g \in Readers :
         rd[g].pc \in {"count", "fetch"} /\ rd'[g].pc # rd[g].pc
         => \A p \in SyncProcs :
              LET t == TableOf(rd[g].req.view) IN
              /\ Busy(sync[p]) /\ sync[p].table = t
              /\ AllMappings(sync[p].records) /\ ~sync[p].interfered
              => \/ db[t] = sync[p].pre
                 \/ db[t] = SeqToBag(sync[p].records)]_vars

\* C4 - cache coherence: once a sync of a table has answered success (and
\* no later sync has touched the table), a read answered from the cache
\* returns what the queries return on the table as it is.
C4_CacheCoherence ==
    [][\A g \in Readers :
         LET q == rd'[g].req
             t == TableOf(q.view)
         IN  Hit(g) /\ hist[t].state = "synced"
             => /\ rd'[g].data \in DataQuery(q, db[t])
                /\ rd'[g].total = CountQuery(q, db[t])]_vars

\* The cache c holds, for the read request q, a page computed from the
\* rows pre that is not what the query returns on the rows post.
HoldsPreSyncRows(c, q, pre, post) ==
    /\ CacheKey(q) \in DOMAIN c
    /\ c[CacheKey(q)].val.data \in DataQuery(q, pre)
    /\ c[CacheKey(q)].val.data \notin DataQuery(q, post)

\* C5 - under every interleaving of a read with a sync of its table: no
\* cached page is returned whose freshness timestamp is older than the
\* last committed sync of the table, and no cache entry holding the rows
\* from before a sync is in the cache once that sync has committed.
C5_NoStaleEntry ==
    [][/\ \A g \in Readers :
            LET t == TableOf(rd'[g].req.view) IN
            Hit(g) /\ hist[t].state = "synced"
            => now - rd'[g].age >= hist[t].at
       /\ \A p \in SyncProcs, q \in ReadRequests :
            /\ sync[p].pc = "commit" /\ sync'[p].pc = "done"
            /\ ~sync[p].interfered
            /\ TableOf(q.view) = sync[p].table
            => ~HoldsPreSyncRows(cache', q, sync[p].pre,
                                 db'[sync[p].table])]_vars

\* C6 - TTL expiry: a cached page stored at minute t0 by a view whose
\* cache lasts D minutes is never returned by a read at a minute
\* >= t0 + D, whatever was read and stored in between.
C6_TtlExpiry ==
    [][\A g \in Readers :
         Hit(g) => now < rd'[g].stored + CacheMinutes(rd'[g].req.view)]_vars

\* A read of a page missed although the view's shared timestamp is still
\* fresh: the page's own entry, still in the store, had expired.
C6_Witness ==
    \E g \in Readers :
      LET q == rd[g].req
          k == CacheKey(q)
          last_updated == CacheGet(cache, LastUpdatedKey(q.view), now)
      IN  /\ rd[g].pc \in {"count", "fetch"}
          /\ k \in DOMAIN cache
          /\ HasExpired(cache[k], now)
          /\ last_updated.hit
          /\ now - last_updated.stamp < CacheMinutes(q.view)

\* C7 - concurrent syncs of one table are serialized: when the last sync
\* requests of the two processes were for the same table and both answered
\* success, the table holds exactly the records of one of them.
C7_SyncsSerialized ==
    \A p \in SyncProcs, q \in SyncProcs :
      /\ p # q
      /\ sync[p].pc = "done" /\ sync[p].status = 200
      /\ sync[q].pc = "done" /\ sync[q].status = 200
      /\ sync[p].table = sync[q].table
      => \/ db[sync[p].table] = SeqToBag(sync[p].records)
         \/ db[sync[p].table] = SeqToBag(sync[q].records)

\* C8 - InvalidTarget: a sync request for a table name outside the three
\* known tables is answered 400 with success false, and no table and no
\* cache entry changes.
C8_InvalidTarget ==
    [][\A p \in SyncProcs, body \in SyncBodies :
         /\ SyncReceive(p, body)
         /\ body.kind = "object" /\ TableName(body) \notin valid_tables
         => /\ sync'[p].pc = "done"
            /\ sync'[p].status = 400 /\ ~sync'[p].success
            /\ db' = db /\ cache' = cache]_vars

C8_Witness ==
    \E p \in SyncProcs :
      /\ sync[p].pc = "done" /\ sync[p].table = "bogus_table"
      /\ sync[p].status = 400

\* Reading q now would be answered from the cache c.
WouldHit(c, q, t) ==
    LET last_updated == CacheGet(c, LastUpdatedKey(q.view), t) IN
    /\ CacheGet(c, CacheKey(q), t).hit
    /\ last_updated.hit
    /\ t - last_updated.stamp < CacheMinutes(q.view)

\* C9 - EmptyPayload: a sync request for a known table with zero records
\* is answered 400 with success false; the tables and the cache stay as
\* they are, so every page that was served from the cache still is.
C9_EmptyPayload ==
    [][\A p \in SyncProcs, body \in SyncBodies :
         /\ SyncReceive(p, body)
         /\ body.kind = "object" /\ TableName(body) \in valid_tables
         /\ body.shape \in {"list", "absent"} /\ body.items = <<>>
         => /\ sync'[p].pc = "done"
            /\ sync'[p].status = 400 /\ ~sync'[p].success
            /\ db' = db /\ cache' = cache
            /\ \A q \in ReadRequests :
                 WouldHit(cache, q, now) => WouldHit(cache', q, now')]_vars

\* A /clients page is served from the cache after the only sync request so
\* far, one for rrc_clients with no records, was answered 400.
C9_Witness ==
    \E p \in SyncProcs, g \in Readers :
      /\ nSync = 1
      /\ sync[p].pc = "done" /\ sync[p].table = "rrc_clients"
      /\ sync[p].records = <<>> /\ sync[p].status = 400
      /\ rd[g].pc = "done" /\ rd[g].from_cache /\ rd[g].seen = 1
      /\ rd[g].req.view = "clients"

\* C10 - malformed input has no partial effect: a sync request whose body
\* is not JSON, not a JSON object, or whose data is not a list of record
\* mappings is answered 400 and changes no table and no cache entry.
Malformed(body) ==
    \/ body.kind \in {"bad_json", "not_object"}
    \/ body.shape \in {"null", "string"}
    \/ ~AllMappings(body.items)

C10_MalformedNoEffect ==
    [][\A p \in SyncProcs :
         /\ \A body \in SyncBodies :
              SyncReceive(p, body) /\ Malformed(body)
              => /\ db' = db /\ cache' = cache
                 /\ sync'[p].pc = "done" => sync'[p].status = 400
         /\ Busy(sync[p]) /\ ~AllMappings(sync[p].records)
              /\ sync'[p].pc # sync[p].pc
              => /\ db' = db /\ cache' = cache
                 /\ sync'[p].pc = "done" => sync'[p].status = 400]_vars
\* C11 - clear-step fallback: when the truncate of a sync fails and the
\* row-delete that follows succeeds, the request goes on to the insert
\* step instead of answering an error.
C11_ClearFallback ==
    [][\A p \in SyncProcs :
         /\ sync[p].pc = "truncate"
         /\ sync'[p].pc # "truncate"
         /\ ~(sync'[p].pc = "done" /\ sync'[p].reason = "truncate")
         => sync'[p].pc = "insert"]_vars
\* The steps of a request in which an insertion strategy runs.
Strategies == {"insert", "values", "executemany"}

\* C12 - insertion fallback chain: VALUES is entered only from a COPY that
\* raised and executemany only from a VALUES that raised; no strategy is
\* entered a second time; the request leaves the chain for the cache step
\* as soon as one strategy completes, with all records counted; and a
\* request whose records have their columns answers an error from the
\* chain only out of executemany, with status 500.
C12_FallbackChain ==
    [][\A p \in SyncProcs :
         LET a == sync[p].pc
             b == sync'[p].pc
         IN  a # b =>
             /\ b = "values" => a = "insert"
             /\ b = "executemany" => a = "values"
             /\ b = "insert" => a = "truncate"
             /\ b = "cache_clear"
                  => a \in Strategies
                     /\ sync'[p].count = Len(sync[p].records)
             /\ a \in Strategies /\ IsMapping(sync[p].records[1])
                  /\ b = "done"
                  => a = "executemany" /\ sync'[p].status = 500]_vars

\* A request with well-formed records was answered 500 after COPY, VALUES
\* and executemany had all failed.
C12_Witness ==
    \E p \in SyncProcs :
      /\ sync[p].pc = "done" /\ sync[p].status = 500
      /\ sync[p].reason = "insert" /\ AllMappings(sync[p].records)
      /\ sync[p].records # <<>>
\* C13 - table-scoped invalidation: the cache step of a sync of table T
\* removes every cache entry of T's view and leaves the entries of the
\* other views (pages and last-updated timestamps) as they are.
C13_TableScopedInvalidation ==
    [][\A p \in SyncProcs :
         sync[p].pc = "cache_clear" /\ sync'[p].pc = "commit"
         => \A k \in DOMAIN cache :
              IF TableOf(k[2]) = sync[p].table
              THEN k \notin DOMAIN cache'
              ELSE k \in DOMAIN cache' /\ cache'[k] = cache[k]]_vars
\* C14 - cache unavailability never fails a read: a read request in which
\* a cache lookup or a cache store raised is answered with a success
\* response.
C14_CacheErrorNoFailure ==
    [][\A g \in Readers :
         rd'[g] # rd[g] /\ rd'[g].pc = "done" /\ rd'[g].cache_error
         => rd'[g].status = 200]_vars
\* A response of a paginated endpoint of clients or master.
PageResponse(r) ==
    /\ r.pc = "done" /\ r.status = 200 /\ ~r.all
    /\ r.req.view \in {"clients", "master"}

\* C15: on a table that does not change, the rows of pages 1 to
\* total_pages of a paginated endpoint, put one after the other, are a row
\* list that the unpaginated endpoint returns for the same search: every
\* matching row once, in name order.
C15_PaginationInvariant ==
    \A g \in Readers :
      LET r == rd[g] IN
      PageResponse(r) /\ r.first = 1 /\ r.req.page = total_pages(r)
        => r.walk \o r.data \in AllQuery(r.req, db[TableOf(r.req.view)])

\* The least number of pages of the given size that hold n rows.
Ceil(n, size) ==
    CHOOSE k \in 0 .. n : k * size >= n /\ (k = 0 \/ (k - 1) * size < n)

\* The rows of a list that come after the first offset rows, at most size
\* of them.
RowsAt(list, offset, size) ==
    LET last == IF Len(list) - offset < size THEN Len(list) ELSE offset + size
    IN  [i \in 1 .. (IF last > offset THEN last - offset ELSE 0) |->
           list[offset + i]]

\* C16: in every response of a paginated endpoint to a request with
\* page >= 1 and page_size >= 1, the page size used is the lesser of the
\* requested one and 5000, the rows are those that follow the first
\* (page - 1) * page_size rows of the matching rows in name order,
\* total_pages is total_records / page_size rounded up, has_next says
\* page < total_pages, has_previous says page > 1, and records_on_page is
\* at most page_size.
C16_PaginationMetadata ==
    \A g \in Readers :
      LET r == rd[g]
          size == IF r.params.page_size < 5000 THEN r.params.page_size
                  ELSE 5000
      IN  PageResponse(r) =>
            /\ r.req.page_size = size
            /\ r.req.page = r.params.page
            /\ \E list \in AllQuery(r.req, db[TableOf(r.req.view)]) :
                 r.data = RowsAt(list, (r.params.page - 1) * size, size)
            /\ total_pages(r) = Ceil(r.total, size)
            /\ has_next(r) <=> r.params.page < Ceil(r.total, size)
            /\ has_previous(r) <=> r.params.page > 1
            /\ records_on_page(r) <= size

\* A second page of two rows, answered from the database, with a page
\* before it and a page of one row after it.
C16_Witness ==
    \E g \in Readers :
      /\ PageResponse(rd[g]) /\ ~rd[g].from_cache
      /\ rd[g].req.page = 2 /\ rd[g].total = 3 /\ rd[g].req.page_size = 2
      /\ total_pages(rd[g]) = 2 /\ ~has_next(rd[g]) /\ has_previous(rd[g])
      /\ records_on_page(rd[g]) = 1

\* The response of g is to a request for a page beyond the last one.
OutOfRange(g) ==
    LET r == rd[g]
        n == CountQuery(r.req, db[TableOf(r.req.view)])
    IN  /\ r.pc = "done" /\ ~r.all /\ r.req.view \in {"clients", "master"}
        /\ r.req.page > Ceil(n, r.req.page_size)

\* C17: a request for a page beyond the last one (any page, when no row
\* matches) is answered with success, no rows, the total_records and
\* total_pages of the query's in-range pages, and has_next false.
C17_OutOfRangePage ==
    \A g \in Readers :
      LET r == rd[g]
          n == CountQuery(r.req, db[TableOf(r.req.view)])
      IN  OutOfRange(g) =>
            /\ r.status = 200
            /\ r.data = <<>>
            /\ records_on_page(r) = 0
            /\ r.total = n
            /\ total_pages(r) = Ceil(n, r.req.page_size)
            /\ ~has_next(r)

\* Page 3 of a table whose rows fill two pages was asked for and answered
\* from the database.
C17_Witness ==
    \E g \in Readers :
      /\ OutOfRange(g) /\ ~rd[g].from_cache
      /\ rd[g].req.page = 3 /\ rd[g].total > 0 /\ total_pages(rd[g]) = 2

\* opening_balance + debit - credit of a row, a missing value counted as 0.
Amount(x) == IF x = {} THEN Zero ELSE CHOOSE v \in x : TRUE

FormulaBalance(row) ==
    Minus(Plus(Amount(opening_balance(row)), Amount(debit(row))),
          Amount(credit(row)))

\* A response of /master or /master/all.
MasterResponse(r) ==
    r.pc = "done" /\ r.status = 200 /\ r.req.view = "master"

\* C18: whatever acc_master holds, /master and /master/all return no row
\* whose opening_balance + debit - credit (missing values as 0) is not
\* above 0, the balance field of every returned row is that sum, and
\* total_records is the number of rows with a balance above 0 that match
\* the search.
C18_MasterBalanceFilter ==
    \A g \in Readers :
      LET r == rd[g]
          rows == db[TableOf("master")]
      IN  MasterResponse(r) =>
            /\ \A i \in DOMAIN r.data :
                 /\ Positive(FormulaBalance(r.data[i]))
                 /\ balance_field(r.data[i]) = FormulaBalance(r.data[i])
            /\ r.total =
                 BagSize([row \in {x \in DOMAIN rows :
                                     /\ Positive(FormulaBalance(x))
                                     /\ Filter(r.req.search,
                                               SearchFields("master", x))}
                          |-> rows[row]])

\* The text, case folded.
Folded(text) == [i \in DOMAIN text |-> Lower(text[i])]

\* The column holds a text that contains the term, letter case aside.
Contains(value, term) ==
    /\ value # Null
    /\ \E i \in 0 .. Len(value) - Len(term) :
         Folded(SubSeq(value, i + 1, i + Len(term))) = Folded(term)

\* A supplied filter is one that is not blank.
Satisfies(term, values) ==
    Strip(term) # <<>> => \E c \in values : Contains(c, Strip(term))

\* C19: a read of /products/all that is not answered from the cache
\* returns exactly the products that satisfy every filter that is not
\* blank: the search on name or code, and category, company and brand each
\* on its column; total_records is the number of rows returned.
C19_ProductFilters ==
    \A g \in Readers :
      LET r == rd[g]
          rows == db[TableOf("products")]
      IN  /\ r.pc = "done" /\ r.status = 200 /\ r.req.view = "products"
          /\ ~r.from_cache
          => /\ Range(r.data) =
                  {x \in DOMAIN rows :
                     /\ Satisfies(r.params.search, {name(x), code(x)})
                     /\ Satisfies(r.params.category, {catagory(x)})
                     /\ Satisfies(r.params.company, {company(x)})
                     /\ Satisfies(r.params.brand, {brand(x)})}
             /\ BagSize(SeqToBag(r.data)) = BagSize(rows)
                  - BagSize([x \in DOMAIN rows \ Range(r.data) |-> rows[x]])
             /\ r.total = Len(r.data)

\* C20: the total_records of every paginated response that is computed
\* from the database counts the rows of the table content that its data
\* rows were read from, also when a sync of the table commits while the
\* request is running.
C20_CountConsistency ==
    [][\A g \in Readers :
         /\ rd[g].pc = "fetch" /\ rd'[g].pc = "store"
         /\ rd[g].req.view # "products"
         => rd'[g].total = CountQuery(rd[g].req,
                                      db[TableOf(rd[g].req.view)])]_vars

\* Request p is answered success at this step, and no other sync request
\* worked on its table while it ran: it is one of a sequence of syncs.
SucceedsAlone(p) ==
    /\ AnswersFromTransaction(p) /\ sync'[p].status = 200
    /\ ~sync[p].interfered
    /\ \A q \in SyncProcs \ {p} :
         ~(Busy(sync[q]) /\ sync[q].table = sync[p].table)

\* C21 - full replace and idempotence: after a successful sync of a
\* sequence the table holds the records of that sync and nothing else,
\* whatever it held before; so a table that held exactly the list R (as
\* after a sync of R) is the same after R is synced again, and R2 synced
\* after R1 leaves exactly R2.
C21_FullReplace ==
    [][\A p \in SyncProcs :
         SucceedsAlone(p)
         => /\ db'[sync[p].table] = SeqToBag(sync[p].records)
            /\ sync[p].pre = SeqToBag(sync[p].records)
                 => db'[sync[p].table] = sync[p].pre]_vars

\* C22 - independence of tables: a step of a sync request of table T,
\* whether the request ends in success or in an error, changes the rows
\* of no other table; and a sync that answers success while a sync of
\* another table is running leaves its own table holding exactly its own
\* record list.
C22_TableIndependence ==
    [][\A p \in SyncProcs :
         /\ sync'[p].pc # sync[p].pc
              => \A t \in valid_tables \ {sync'[p].table} : db'[t] = db[t]
         /\ SucceedsAlone(p)
              /\ (\E q \in SyncProcs \ {p} :
                    Busy(sync[q]) /\ sync[q].table # sync[p].table)
              => db'[sync[p].table] = SeqToBag(sync[p].records)]_vars

\* C23 - explicit refresh: POST /refresh-cache is answered with success,
\* and once it is answered nothing is cached, so that the next read of
\* every entity, whatever its parameters, is a cache miss.
C23_ExplicitRefresh ==
    \A g \in Readers :
      rd[g].pc = "done" /\ rd[g].params.view = "refresh-cache"
        => /\ rd[g].status = 200
           /\ \A q \in QueryRequests : ~WouldHit(cache, Effective(q), now)

\* The rows of p's table as p's transaction sees them: the committed rows
\* and the rows pending in the transaction.
RowsSeenBy(p, d, sy) == d[sy[p].table] (+) sy[p].pending

\* C26 - no residue from a failed strategy: when executemany completes in
\* a request whose VALUES strategy had inserted some batches before it
\* failed (and no other request changed the table), the table holds each
\* record of the request exactly once, and the number of records reported
\* is the number of rows in the table.
C26_NoResidue ==
    [][\A p \in SyncProcs :
         /\ sync[p].pc = "executemany" /\ sync'[p].pc = "cache_clear"
         /\ RowsSeenBy(p, db, sync) # EmptyBag
         /\ ~sync'[p].interfered
         => /\ RowsSeenBy(p, db', sync') = SeqToBag(sync[p].records)
            /\ sync'[p].count = BagSize(RowsSeenBy(p, db', sync'))]_vars

\* 'cache_expires_in_minutes' of a response from the cache.
cache_expires_in_minutes(r) == CacheMinutes(r.req.view) - r.age

\* C27 - per-entry freshness: the age a cached page K is validated with,
\* and from which cache_expires_in_minutes is reported, is the time since
\* K itself was written, not the time since another page or search of the
\* same view was written.
C27_PerEntryFreshness ==
    [][\A g \in Readers :
         Hit(g)
         => /\ rd'[g].age = now - rd'[g].stored
            /\ cache_expires_in_minutes(rd'[g]) =
                 rd'[g].stored + CacheMinutes(rd'[g].req.view) - now]_vars

\* C29 - a failure of cache invalidation never fails or rolls back a
\* sync: a request in which cache.clear() raised, after the clear and the
\* insert steps had succeeded, commits the rows its transaction holds and
\* answers 200 with records_processed = len(records).
C29_ClearFailureHarmless ==
    [][\A p \in SyncProcs :
         AnswersFromTransaction(p) /\ sync'[p].clear_failed
         => /\ sync'[p].status = 200 /\ sync'[p].success
            /\ sync'[p].count = Len(sync[p].records)
            /\ db'[sync[p].table] = RowsSeenBy(p, db, sync)]_vars

\* A sync answered 200 although cache.clear() had raised; the page that
\* was cached before it is still in the cache.
C29_Witness ==
    \E p \in SyncProcs :
      /\ sync[p].pc = "done" /\ sync[p].clear_failed
      /\ sync[p].status = 200 /\ sync[p].count = Len(sync[p].records)
      /\ db[sync[p].table] = SeqToBag(sync[p].records)
      /\ cache # <<>>

\* Reader g was answered a page without rows, and its next request asks
\* the same again while the entry of that result is in the cache (no sync
\* has cleared it) and the cache answers.
RepeatsEmptyRead(g, q) ==
    /\ rd[g].pc = "done" /\ rd[g].status = 200 /\ rd[g].data = <<>>
    /\ ~rd[g].all
    /\ rd[g].params = q
    /\ ReadLookup(g, q)
    /\ ~rd'[g].cache_error
    /\ CacheKey(Effective(q)) \in DOMAIN cache

\* C28 - zero-row results are cached like any other: a result without rows
\* is stored; the same request repeated while the entry is in the cache is
\* answered from the cache, with the same empty data and total, when less
\* than the view's cache time has passed since the entry was stored, and
\* from the database when that time has passed; and the cache step of a
\* sync, when cache.clear() does not raise, removes the entry.
C28_ZeroRowsCached ==
    [][/\ \A g \in Readers :
            /\ rd[g].pc = "store" /\ rd'[g].pc = "done"
            /\ rd'[g].status = 200 /\ rd'[g].data = <<>>
            => /\ CacheKey(rd[g].req) \in DOMAIN cache'
               /\ cache'[CacheKey(rd[g].req)].val.data = <<>>
               /\ WouldHit(cache', rd[g].req, now)
       /\ \A g \in Readers, q \in ReadRequests :
            RepeatsEmptyRead(g, q)
            => LET e == cache[CacheKey(Effective(q))] IN
               IF now < e.at + CacheMinutes(q.view)
               THEN /\ rd'[g].pc = "done" /\ rd'[g].from_cache
                    /\ rd'[g].status = 200
                    /\ rd'[g].data = <<>>
                    /\ rd'[g].total = e.val.total
               ELSE ~rd'[g].from_cache /\ rd'[g].pc # "done"
       /\ \A p \in SyncProcs :
            /\ sync[p].pc = "cache_clear" /\ sync'[p].pc = "commit"
            /\ ~sync'[p].clear_failed
            => \A q \in ReadRequests : ~WouldHit(cache', q, now)]_vars

\* The read of a table without rows is answered from the cache, with no
\* rows and total_records 0.
C28_Witness ==
    \E g \in Readers :
      /\ rd[g].pc = "done" /\ rd[g].from_cache /\ rd[g].status = 200
      /\ rd[g].data = <<>> /\ rd[g].total = 0

\* C30 - unpaginated client and master reads bypass the cache: the
\* request of /clients/all or /master/all is answered with success and
\* with all rows that the table holds, committed, at that moment, in name
\* order; it takes nothing from the cache and leaves the cache as it is.
C30_AllBypassesCache ==
    [][\A g \in Readers :
         nRead' = nRead + 1 /\ rd'[g].all
         => LET r == rd'[g]
                rows == db[TableOf(r.req.view)]
            IN  /\ cache' = cache
                /\ r.pc = "done" /\ r.status = 200 /\ ~r.from_cache
                /\ SeqToBag(r.data) = Matching(r.req, rows)
                /\ \A i, j \in DOMAIN r.data :
                     i < j => NameRank(r.data[i]) <= NameRank(r.data[j])
                /\ r.total = BagSize(Matching(r.req, rows))]_vars

\* /clients/all or /master/all answered with no rows, from a table that a
\* sync had emptied, while the first page cached for the paginated
\* endpoint of the table still holds a row.
C30_Witness ==
    \E g \in Readers :
      LET r == rd[g]
          k == CacheKey(r.req)
      IN  /\ r.pc = "done" /\ r.all /\ r.status = 200
          /\ r.data = <<>>
          /\ k \in DOMAIN cache /\ cache[k].val.data # <<>>

\* The step in which strategy step of request p stores its rows.
Stores(p, step) == sync[p].pc = step /\ sync'[p].pc = "cache_clear"

\* The rows of the bag, in the orders they can be numbered in.
Numberings(b) ==
    {rows \in [1..BagSize(b) -> BagToSet(b)] : SeqToBag(rows) = b}

\* C24 - the column set comes from the first record: whichever strategy
\* stores the records, it stores one row per record, and of each record
\* only the values under the keys of the first record: a column the first
\* record has and the record lacks is NULL, a value the record has under
\* such a key is stored, and a column outside the first record's keys is
\* NULL in every row, also where a later record has a value for it.
C24_ColumnsOfFirstRecord ==
    [][\A p \in SyncProcs, step \in Strategies :
         Stores(p, step)
         => LET records == sync[p].records
                first == DOMAIN records[1]
            IN  /\ first # {}
                /\ sync'[p].count = Len(records)
                /\ \E rows \in Numberings(db'[sync[p].table]) :
                     /\ Len(rows) = Len(records)
                     /\ \A i \in DOMAIN records, c \in TableColumns :
                          /\ c \notin first => rows[i][c] = Null
                          /\ c \in first
                             => (rows[i][c] = Null
                                   <=> Get(records[i], c) = None)]_vars

\* Two records are stored; the second lacks a key of the first and has a
\* value under a key the first does not have.
C24_Witness ==
    \E p \in SyncProcs :
      LET records == sync[p].records IN
      /\ sync[p].pc = "cache_clear" /\ Len(records) = 2
      /\ BagSize(db[sync[p].table]) = 2
      /\ \E c \in DOMAIN records[1] : c \notin DOMAIN records[2]
      /\ \E c \in DOMAIN records[2] :
           c \notin DOMAIN records[1] /\ records[2][c] # None

\* C25 - the strategies are equivalent in what they store: the rows a
\* strategy stores for a column list and records are the rows each other
\* strategy stores for them; a null is stored as NULL, a date with a time
\* of day as the date, and any other text unchanged.
C25_StrategyEquivalence ==
    [][\A p \in SyncProcs, step \in Strategies :
         Stores(p, step)
         => LET records == sync[p].records
                cols == columns(records)
                stored == db'[sync[p].table]
            IN  /\ \A other \in Strategies :
                     Accepted(cols, RowsOf(other, cols, records))
                     => stored = SeqToBag(RowsOf(other, cols, records))
                /\ \E rows \in Numberings(stored) :
                     \A i \in DOMAIN records, j \in DOMAIN cols :
                       LET value == Get(records[i], cols[j])
                           held == rows[i][cols[j]]
                       IN  /\ value = None => held = Null
                           /\ value.type = "str"
                              => held = IF IsDateColumn(cols[j])
                                        THEN Date(value.text[1])
                                        ELSE value.text]_vars

\* C31 - a failed read does not touch the cache: a request answered 500
\* because page or page_size is not an integer or not positive, or
\* because the database failed, leaves every cache entry and timestamp as
\* it was; the cache changes only in the step that ends a request with a
\* page read from the database and status 200.
C31_FailedReadLeavesCache ==
    [][\A g \in Readers :
         /\ rd'[g] # rd[g] /\ rd'[g].pc = "done" /\ rd'[g].status = 500
            => cache' = cache
         /\ cache' # cache
            => /\ rd[g].pc = "store" /\ rd'[g].pc = "done"
               /\ rd'[g].status = 200 /\ ~rd'[g].from_cache]_vars

\* A request with page_size = 0 was answered 500 while the cache held
\* pages of earlier requests.
C31_Witness ==
    \E g \in Readers :
      /\ rd[g].pc = "done" /\ rd[g].status = 500
      /\ rd[g].req.page_size = 0
      /\ cache # <<>>

\* The place of a step in post: no step leads back to an earlier one.
StepRank(pc) ==
    CASE pc = "idle" -> 0
      [] pc = "truncate" -> 1
      [] pc = "insert" -> 2
      [] pc = "values" -> 3
      [] pc = "executemany" -> 4
      [] pc = "cache_clear" -> 5
      [] pc = "commit" -> 6
      [] pc = "done" -> 7

\* C32 - every sync request ends with exactly one response: whatever the
\* body and whichever of the clear step, the insertion strategies and
\* cache.clear() fail, the request reaches its response; the response has
\* status 200, 400 or 500 and success = true exactly with 200; every step
\* of a request is a later step than the one before (none is retried), and
\* the response, once given, stays as it is until the next request
\* arrives.
C32_SyncTerminates ==
    /\ \A p \in SyncProcs : Busy(sync[p]) ~> sync[p].pc = "done"
    /\ [](\A p \in SyncProcs :
            sync[p].pc = "done"
            => /\ sync[p].status \in {200, 400, 500}
               /\ sync[p].success <=> sync[p].status = 200)
    /\ [][\A p \in SyncProcs :
            /\ Busy(sync[p]) /\ sync'[p].pc # sync[p].pc
               => StepRank(sync'[p].pc) > StepRank(sync[p].pc)
            /\ sync[p].pc = "done" /\ nSync' = nSync
               => /\ sync'[p].pc = "done"
                  /\ sync'[p].status = sync[p].status
                  /\ sync'[p].success = sync[p].success]_vars

\* A request was answered 500 after every insertion strategy had failed,
\* and another was answered 200 though cache.clear() had raised.
C32_Witness ==
    \E p, q \in SyncProcs :
      /\ sync[p].pc = "done" /\ sync[p].status = 500
      /\ sync[p].reason = "insert"
      /\ sync[q].pc = "done" /\ sync[q].status = 200
      /\ sync[q].clear_failed

\* The body has records and no table field.
DefaultsTable(body) ==
    /\ body.kind = "object" /\ body.table = Absent
    /\ body.shape = "list" /\ body.items # <<>>

\* C33 - default target table: a sync request with records and no table
\* field is not rejected but taken as a sync of rrc_clients; no step of
\* it changes another table, and when it is answered success (one of a
\* sequence of syncs) rrc_clients holds exactly its records.
C33_DefaultTable ==
    [][\A p \in SyncProcs :
         /\ \A body \in SyncBodies :
              DefaultsTable(body) /\ SyncReceive(p, body)
              => /\ sync'[p].table = "rrc_clients"
                 /\ sync'[p].pc = "truncate"
                 /\ sync'[p].records = body.items
         /\ sync[p].table = "rrc_clients" /\ sync'[p].pc # sync[p].pc
            => \A t \in valid_tables \ {"rrc_clients"} : db'[t] = db[t]
         /\ SucceedsAlone(p) /\ sync[p].table = "rrc_clients"
            => db'["rrc_clients"] = SeqToBag(sync[p].records)]_vars

\* The cache entries a read request reads and writes.
Entries(q) == {CacheKey(Effective(q)), LastUpdatedKey(q.view)}

\* C34 - cache-key separation: two read requests that differ in view,
\* page, effective page_size, search term or a product filter have no
\* cache entry in common, and a response from the cache is the payload of
\* the request's own parameters: the rows and the total that its queries
\* give.
C34_KeySeparation ==
    /\ [][\A g \in Readers :
            Hit(g)
            => LET r == rd'[g]
                   rows == db[TableOf(r.req.view)]
               IN  /\ r.data \in DataQuery(r.req, rows)
                   /\ r.total = IF r.req.view = "products" THEN Len(r.data)
                                ELSE CountQuery(r.req, rows)]_vars
    /\ [](\A q1, q2 \in KeyRequests :
            Effective(q1) # Effective(q2)
            => Entries(q1) \cap Entries(q2) = {})

====
